---------------------------- MODULE Spec2Model ----------------------------
(***************************************************************************)
(* A model of src/src/main.rs: the TuringMachine type (new, from_string,   *)
(* reset, update) and the colony loop that main() runs once per frame on a *)
(* shared byte map.                                                        *)
(*                                                                         *)
(* Two specifications are given.  Spec is main(): the per-frame callback,  *)
(* split at the positions of its loops (input handling, one iteration of   *)
(* update's loop, end-of-frame maintenance).  SpecApi applies the methods  *)
(* of TuringMachine to one machine and one map, for the statements that    *)
(* are about a method by itself.                                           *)
(*                                                                         *)
(* Integer widths are kept: u8 and u16 arithmetic is reduced modulo 2^8    *)
(* and 2^16, and the u32 counters are kept as two 16-bit limbs.  Rust      *)
(* either aborts on an arithmetic overflow (overflow checks on, the debug  *)
(* profile) or wraps (overflow checks off, the release profile): the       *)
(* profile is the variable overflow_checks, chosen at Init.                *)
(***************************************************************************)
EXTENDS Integers, Sequences, FiniteSets, TLC

VARIABLES
    overflow_checks, \* build profile: TRUE aborts on overflow, FALSE wraps
    map,             \* main.rs:240  the shared byte grid
    machines,        \* main.rs:242  the live set
    newmachines,     \* main.rs:292  clones queued during the frame
    playing,         \* main.rs:236
    space_pressed,   \* main.rs:237
    ITER,            \* main.rs:244  frames played
    pc,              \* position in the callback (or in the harness)
    mi,              \* main.rs:293  index of the machine being updated
    it,              \* main.rs:161  iterations done by the running update
    fresh_count,     \* machines built by new() so far (bounds the run)
    reseeded,        \* a right click emptied the live set, no step since
    api_iters,       \* iterations the harness has asked update for
    last             \* record of the last operation and of what it read

vars == <<overflow_checks, map, machines, newmachines, playing, space_pressed,
          ITER, pc, mi, it, fresh_count, reseeded, api_iters, last>>

---------------------------------------------------------------------------
(* Bounds of the model. *)

\* grid width (512 in the source, line 16)
WIDTH == 3
\* grid height (512 in the source, line 17)
HEIGHT == 2
\* frames played by the colony before the model stops
MaxFrames == 12
\* machines constructed by new() in a colony run before the model stops
MaxFresh == 2
\* the largest num_iters a single call of update is tried with
MaxChunk == 2
\* iterations the harness asks update for in one run, all calls together
MaxApiIters == 4

(* Program constants. *)

NUM_MACHINES == 1
STEPS_PER_FRAME == 10
STARTENERGY == 10
REPLICATIONCOST == 500
\* capacity of the ArrayVec holding the table
CAPACITY == 4096
\* new(50,64): the colony's table dimensions
COLONY_STATES == 50
COLONY_SYMBOLS == 64

U8 == 2^8
U16 == 2^16

---------------------------------------------------------------------------
(* u32 counters (energy, itr_count) as two 16-bit limbs: hi*2^16 + lo.     *)

U32(n) == [hi |-> n \div U16, lo |-> n % U16]

\* a + n for 0 <= n < 2^16, as the wrapped value and the overflow flag
U32Add(a, n) ==
    LET s == a.lo + n
        h == a.hi + (s \div U16)
    IN  [overflow |-> h >= U16, val |-> [hi |-> h % U16, lo |-> s % U16]]

\* a - n for 0 <= n < 2^16, as the wrapped value and the overflow flag
U32Sub(a, n) ==
    LET d == a.lo - n
    IN  IF d >= 0 THEN [overflow |-> FALSE, val |-> [hi |-> a.hi, lo |-> d]]
        ELSE IF a.hi >= 1
             THEN [overflow |-> FALSE, val |-> [hi |-> a.hi - 1, lo |-> d + U16]]
             ELSE [overflow |-> TRUE, val |-> [hi |-> U16 - 1, lo |-> d + U16]]

\* a > n for 0 <= n < 2^16
U32Gt(a, n) == a.hi > 0 \/ a.lo > n

---------------------------------------------------------------------------
(* Actions and transitions. *)

Actions == {"Up", "Down", "Left", "Right", "Wait", "Replicate"}

\* Distribution<Action>::sample: the action for the drawn number k in 0..5
ActionSample(k) ==
    CASE k = 0 -> "Up"
      [] k = 1 -> "Down"
      [] k = 2 -> "Left"
      [] k = 3 -> "Right"
      [] k = 4 -> "Wait"
      [] OTHER -> "Replicate"

Transition(s, c, a) == [state |-> s, symbol |-> c, action |-> a]

ZeroMap == [i \in 0..(WIDTH * HEIGHT - 1) |-> 0]


---------------------------------------------------------------------------
(* new(num_states, num_symbols).  The random draws (SmallRng::from_entropy)*)
(* are a choice among Draws outcomes for the table and among all cells for *)
(* the position.  Pattern(d, i) is what draw d gives entry i before it is  *)
(* reduced into [0, num_states) x [0, num_symbols).                        *)
(*   draw 1: a walker: states below 4, symbols below 5, the five moves;    *)
(*   draw 2: a grazer: writes 63 and waits on it, and replicates;          *)
(*   draw 3: gains one unit of energy in its first frame, then none.       *)

Draws == 1..3

Pattern(d, i) ==
    CASE d = 1 -> Transition((3 * i + 1) % 4, (i + 2) % 5, ActionSample((i + i \div 5) % 5))
      [] d = 2 -> (CASE i = 0  -> Transition(0, 63, "Wait")
                     [] i = 28 -> Transition(0, 63, "Wait")
                     [] i = 78 -> Transition(0, 63, "Replicate")
                     [] OTHER  -> Transition(0, 0, "Wait"))
      [] OTHER -> (CASE i = 0   -> Transition(1, 10, "Wait")
                     [] i = 245 -> Transition(2, 0, "Wait")
                     [] OTHER   -> Transition(2, 0, "Wait"))

\* lines 91-96: entry i (from 0) of the table that draw d gives, state and
\* symbol drawn below num_states and num_symbols and cast to u8
DrawEntry(num_states, num_symbols, d, i) ==
    LET p == Pattern(d, i)
    IN  Transition((p.state % num_states) % U8,
                   (p.symbol % num_symbols) % U8, p.action)

\* lines 82-99: the table of len entries that draw d gives.  A drawn table
\* is kept by its draw and its dimensions rather than entry by entry (it
\* has up to 4096 entries); TableGet gives its entries.
DrawTable(num_states, num_symbols, len, d) ==
    [kind |-> "drawn", draw |-> d, num_states |-> num_states,
     num_symbols |-> num_symbols, len |-> len]

\* a table read by from_string, entry by entry
ReadTable(entries) == [kind |-> "read", entries |-> entries]

\* table.len()
TableLen(table) ==
    IF table.kind = "drawn" THEN table.len ELSE Len(table.entries)

\* table[i], for 0 <= i < table.len()
TableGet(table, i) ==
    IF table.kind = "drawn"
    THEN DrawEntry(table.num_states, table.num_symbols, table.draw, i)
    ELSE table.entries[i + 1]

\* num_states * num_symbols in u16 (lines 78 and 84), without leaving the
\* 32-bit integers of TLC: the wrapped product and the overflow flag
Mul16(a, b) ==
    LET ah == a \div U8
        al == a % U8
    IN  [overflow |-> b > 0 /\ a > (U16 - 1) \div b,
         val |-> (((ah * b) % U8) * U8 + al * b) % U16]

\* the three assertions of lines 75-80: TRUE when construction goes on
NewAccepts(num_states, num_symbols, oc) ==
    /\ num_states >= 1
    /\ num_symbols >= 2
    /\ ~(Mul16(num_states, num_symbols).overflow /\ oc)
    /\ Mul16(num_states, num_symbols).val <= CAPACITY

\* the machine new() returns for table draw d and position (x, y)
NewMachine(num_states, num_symbols, d, x, y) ==
    [table |-> DrawTable(num_states, num_symbols,
                         Mul16(num_states, num_symbols).val, d),
     num_states |-> num_states, num_symbols |-> num_symbols, state |-> 0,
     energy |-> U32(STARTENERGY), xpos |-> x, ypos |-> y, itr_count |-> U32(0)]

\* new(): the set of machines it can return; empty when an assertion fails
new(num_states, num_symbols, oc) ==
    IF NewAccepts(num_states, num_symbols, oc)
    THEN {NewMachine(num_states, num_symbols, d, x, y) :
              d \in Draws, x \in 0..(WIDTH - 1), y \in 0..(HEIGHT - 1)}
    ELSE {}

---------------------------------------------------------------------------
(* The four moves of update's match, on one coordinate. *)

\* MoveLeft stopping at the right edge instead of wrapping
MoveLeftClamped(xpos) ==
    IF xpos + 1 >= WIDTH THEN WIDTH - 1 ELSE xpos + 1

\* Action::Left: xpos += 1, wrapped to 0 past WIDTH-1
MoveLeft(xpos) ==
    LET x == xpos + 1
    IN  IF x >= WIDTH THEN x - WIDTH ELSE x

\* Action::Right: xpos.checked_sub(1), or WIDTH-1 at 0
MoveRight(xpos) ==
    IF xpos >= 1 THEN xpos - 1 ELSE WIDTH - 1

\* MoveUp wrapping to the last column's index instead of the last row's
MoveUpToWidth(ypos) ==
    IF ypos >= 1 THEN ypos - 1 ELSE WIDTH - 1

\* Action::Up: ypos.checked_sub(1), or HEIGHT-1 at 0
MoveUp(ypos) ==
    IF ypos >= 1 THEN ypos - 1 ELSE HEIGHT - 1

\* Action::Down: ypos += 1, wrapped to 0 past HEIGHT-1
MoveDown(ypos) ==
    LET y == ypos + 1
    IN  IF y >= HEIGHT THEN y - HEIGHT ELSE y

\* Clone leaving the clone on the parent's cell
CloneInPlace(self) ==
    [self EXCEPT !.energy = U32(STARTENERGY)]

\* Action::Replicate, taken: the clone pushed on the queue
Clone(self) ==
    [self EXCEPT !.xpos = (self.xpos + 1) % WIDTH,
                 !.ypos = (self.ypos + 1) % HEIGHT,
                 !.energy = U32(STARTENERGY)]

\* the match on trans.action: the machine and the queue after it
ApplyAction(self, action, queue) ==
    CASE action = "Left" ->
           [self |-> [self EXCEPT !.xpos = MoveLeft(self.xpos)], machines |-> queue]
      [] action = "Right" ->
           [self |-> [self EXCEPT !.xpos = MoveRight(self.xpos)], machines |-> queue]
      [] action = "Up" ->
           [self |-> [self EXCEPT !.ypos = MoveUp(self.ypos)], machines |-> queue]
      [] action = "Down" ->
           [self |-> [self EXCEPT !.ypos = MoveDown(self.ypos)], machines |-> queue]
      [] action = "Wait" ->
           [self |-> self, machines |-> queue]
      [] OTHER ->
           IF U32Gt(self.energy, REPLICATIONCOST)
           THEN LET paid == [self EXCEPT
                               !.energy = U32Sub(self.energy, REPLICATIONCOST).val]
                IN  [self |-> paid, machines |-> Append(queue, Clone(paid))]
           ELSE [self |-> self, machines |-> queue]

---------------------------------------------------------------------------
(* One iteration of update's loop (lines 163-220).  The result names the   *)
(* machine, the map and the queue after the iteration, whether the         *)
(* iteration aborted (and then the state is the one at the abort), and     *)
(* what the iteration read: the cell, the symbol under the head and the    *)
(* table index it used (-1 when it aborted before computing one).          *)

\* the table index of line 169, computed in u8: the product and the sum
\* each wrap modulo 2^8 (or abort, with overflow checks)
LookupIndex(num_states, symbol, state) ==
    LET mul == (num_states % U8) * symbol
        sum == (mul % U8) + state
    IN  [overflow |-> mul >= U8 \/ sum >= U8, val |-> sum % U8]

Aborted(self, mp, queue, cell, symbol, index, why) ==
    [panicked |-> TRUE, why |-> why, self |-> self, map |-> mp,
     machines |-> queue, cell |-> cell, symbol |-> symbol, index |-> index]

\* update_iter writing the transition's symbol after the move, on the cell
\* the machine has moved to
update_iterWritesAfterMove(self, mp, queue, oc) ==
    LET dec    == U32Sub(self.energy, 1)
        cell   == WIDTH * self.ypos + self.xpos
        symbol == mp[cell]
        gain   == U32Add(dec.val, symbol \div 10)
        idx    == LookupIndex(self.num_states, symbol, self.state)
        s1     == [self EXCEPT !.energy = dec.val]
        s2     == [self EXCEPT !.energy = gain.val]
    IN  IF dec.overflow /\ oc
        THEN Aborted(self, mp, queue, cell, symbol, -1, "energy -= 1")
        ELSE IF gain.overflow /\ oc
        THEN Aborted(s1, mp, queue, cell, symbol, -1, "energy += symbol/10")
        ELSE IF idx.overflow /\ oc
        THEN Aborted(s2, mp, queue, cell, symbol, -1, "index arithmetic")
        ELSE IF idx.val >= TableLen(self.table)
        THEN Aborted(s2, mp, queue, cell, symbol, idx.val, "index out of bounds")
        ELSE LET trans == TableGet(self.table, idx.val)
                 cnt   == U32Add(self.itr_count, 1)
                 s3    == [s2 EXCEPT !.state = trans.state]
                 s4    == [s3 EXCEPT !.itr_count = cnt.val]
                 done  == ApplyAction(s4, trans.action, queue)
                 mp3   == [mp EXCEPT ![WIDTH * done.self.ypos + done.self.xpos]
                                        = trans.symbol]
             IN  IF cnt.overflow /\ oc
                 THEN Aborted(s3, mp, queue, cell, symbol, idx.val, "itr_count += 1")
                 ELSE [panicked |-> FALSE, why |-> "", self |-> done.self,
                       map |-> mp3, machines |-> done.machines, cell |-> cell,
                       symbol |-> symbol, index |-> idx.val]

update_iter(self, mp, queue, oc) ==
    LET dec    == U32Sub(self.energy, 1)
        cell   == WIDTH * self.ypos + self.xpos
        symbol == mp[cell]
        gain   == U32Add(dec.val, symbol \div 10)
        idx    == LookupIndex(self.num_states, symbol, self.state)
        s1     == [self EXCEPT !.energy = dec.val]
        s2     == [self EXCEPT !.energy = gain.val]
    IN  IF dec.overflow /\ oc
        THEN Aborted(self, mp, queue, cell, symbol, -1, "energy -= 1")
        ELSE IF gain.overflow /\ oc
        THEN Aborted(s1, mp, queue, cell, symbol, -1, "energy += symbol/10")
        ELSE IF idx.overflow /\ oc
        THEN Aborted(s2, mp, queue, cell, symbol, -1, "index arithmetic")
        ELSE IF idx.val >= TableLen(self.table)
        THEN Aborted(s2, mp, queue, cell, symbol, idx.val, "index out of bounds")
        ELSE LET trans == TableGet(self.table, idx.val)
                 cnt   == U32Add(self.itr_count, 1)
                 s3    == [s2 EXCEPT !.state = trans.state]
                 mp3   == [mp EXCEPT ![cell] = trans.symbol]
                 s4    == [s3 EXCEPT !.itr_count = cnt.val]
                 done  == ApplyAction(s4, trans.action, queue)
             IN  IF cnt.overflow /\ oc
                 THEN Aborted(s3, mp3, queue, cell, symbol, idx.val, "itr_count += 1")
                 ELSE [panicked |-> FALSE, why |-> "", self |-> done.self,
                       map |-> mp3, machines |-> done.machines, cell |-> cell,
                       symbol |-> symbol, index |-> idx.val]

\* update with its loop run over 0..=num_iters: one iteration too many
RECURSIVE updateInclusive(_, _, _, _, _)
updateInclusive(self, mp, num_iters, queue, oc) ==
    LET r == update_iter(self, mp, queue, oc)
    IN  IF r.panicked
        THEN [panicked |-> TRUE, self |-> r.self, map |-> r.map,
              machines |-> r.machines]
        ELSE IF num_iters = 0
        THEN [panicked |-> FALSE, self |-> r.self, map |-> r.map,
              machines |-> r.machines]
        ELSE updateInclusive(r.self, r.map, num_iters - 1, r.machines, oc)

\* update(map, num_iters, machines): num_iters iterations, stopping at an abort
RECURSIVE update(_, _, _, _, _)
update(self, mp, num_iters, queue, oc) ==
    IF num_iters = 0
    THEN [panicked |-> FALSE, self |-> self, map |-> mp, machines |-> queue]
    ELSE LET r == update_iter(self, mp, queue, oc)
         IN  IF r.panicked
             THEN [panicked |-> TRUE, self |-> r.self, map |-> r.map,
                   machines |-> r.machines]
             ELSE update(r.self, r.map, num_iters - 1, r.machines, oc)

\* reset(): the machine after it; the method has no access to the map
reset(self) ==
    [self EXCEPT !.state = 0, !.energy = U32(STARTENERGY), !.ypos = 0,
                 !.xpos = 0, !.itr_count = U32(0)]

---------------------------------------------------------------------------
(* from_string(transition_hash).  The string is a sequence of characters;  *)
(* split(",") cuts it into tokens and u8::from_str reads each token when   *)
(* the iterator reaches it (the map is lazy: a token never reached is      *)
(* never read).                                                            *)

Digits == <<"0", "1", "2", "3", "4", "5", "6", "7", "8", "9">>

DigitValue(c) == (CHOOSE k \in 1..10 : Digits[k] = c) - 1

IsDigit(c) == \E k \in 1..10 : Digits[k] = c

\* str::split(","): the tokens between the commas, one more than there are
\* commas; token j runs from after comma j-1 to before comma j
Split(chars) ==
    LET commas == {k \in 1..Len(chars) : chars[k] = ","}
        comma(j) == CHOOSE c \in commas : Cardinality({k \in commas : k <= c}) = j
        first(j) == IF j = 1 THEN 1 ELSE comma(j - 1) + 1
        final(j) == IF j = Cardinality(commas) + 1 THEN Len(chars) ELSE comma(j) - 1
    IN  [j \in 1..(Cardinality(commas) + 1) |-> SubSeq(chars, first(j), final(j))]

\* the value of a run of digits, or -1 once it exceeds a u8
RECURSIVE DigitsValue(_, _, _)
DigitsValue(tok, k, acc) ==
    IF k > Len(tok) THEN acc
    ELSE IF ~IsDigit(tok[k]) THEN -1
    ELSE LET v == acc * 10 + DigitValue(tok[k])
         IN  IF v >= U8 THEN -1 ELSE DigitsValue(tok, k + 1, v)

\* u8::from_str: an optional "+", then at least one digit, at most 255;
\* -1 stands for Err
ParseU8(tok) ==
    LET body == IF Len(tok) >= 1 /\ tok[1] = "+" THEN Tail(tok) ELSE tok
    IN  IF Len(body) = 0 THEN -1 ELSE DigitsValue(body, 1, 0)

\* NextValue giving 0 where the tokens have run out (unwrap_or(0))
NextValueOrZero(tokens, k) ==
    IF k > Len(tokens) THEN 0 ELSE ParseU8(tokens[k])

\* trans_table.next().unwrap(): the value of token k; -1 when there is no
\* token k (unwrap on None) or it does not parse (expect on Err)
NextValue(tokens, k) ==
    IF k > Len(tokens) THEN -1 ELSE ParseU8(tokens[k])

\* the action of an action code (lines 123-129), "" for the panic arm
ActionCode(code) ==
    CASE code = 0 -> "Left"
      [] code = 1 -> "Right"
      [] code = 2 -> "Up"
      [] code = 3 -> "Down"
      [] OTHER -> ""

\* the loop of lines 119-138: entries still to read, the next token, the
\* table so far; the result is the table and whether the loop aborted
RECURSIVE ReadEntries(_, _, _, _)
ReadEntries(tokens, k, todo, table) ==
    IF todo = 0 THEN [panicked |-> FALSE, table |-> table]
    ELSE LET state  == NextValue(tokens, k)
             symbol == NextValue(tokens, k + 1)
             code   == NextValue(tokens, k + 2)
         IN  IF \/ state < 0
                \/ symbol < 0
                \/ code < 0
                \/ ActionCode(code) = ""
                \/ Len(table) >= CAPACITY
             THEN [panicked |-> TRUE, table |-> table]
             ELSE ReadEntries(tokens, k + 3, todo - 1,
                      Append(table, Transition(state, symbol, ActionCode(code))))

\* from_string: panicked, or the machine; num_states and num_symbols are
\* -1 when the first two tokens could not be read
from_string(transition_hash) ==
    LET tokens      == Split(transition_hash)
        num_states  == NextValue(tokens, 1)
        num_symbols == NextValue(tokens, 2)
        read        == ReadEntries(tokens, 3, num_states * num_symbols, <<>>)
    IN  IF num_states < 0 \/ num_symbols < 0
        THEN [panicked |-> TRUE, num_states |-> num_states,
              num_symbols |-> num_symbols, table |-> <<>>]
        ELSE IF read.panicked
        THEN [panicked |-> TRUE, num_states |-> num_states,
              num_symbols |-> num_symbols, table |-> read.table]
        ELSE [panicked |-> FALSE, num_states |-> num_states,
              num_symbols |-> num_symbols, table |-> read.table,
              machine |->
                [table |-> ReadTable(read.table), num_states |-> num_states,
                 num_symbols |-> num_symbols, state |-> 0,
                 energy |-> U32(STARTENERGY), xpos |-> 0, ypos |-> 0,
                 itr_count |-> U32(0)]]

(* The encodings the harness decodes. *)

\* the encoding of the decode scenario: 27 values
EncScenario ==
    <<"3", ",", "4", ",", "2", ",", "2", ",", "3", ",", "2", ",", "4", ",",
      "0", ",", "0", ",", "1", ",", "0", ",", "2", ",", "1", ",", "2", ",",
      "1", ",", "1", ",", "0", ",", "1", ",", "2", ",", "3", ",", "2", ",",
      "3", ",", "0", ",", "2", ",", "1", ",", "0", ",", "2">>

\* main.rs:232: 3 states, 6 symbols, 56 values
EncThreeSix ==
    <<"3", ",", "6", ",", "2", ",", "2", ",", "3", ",", "2", ",", "4", ",",
      "0", ",", "0", ",", "1", ",", "0", ",", "2", ",", "1", ",", "2", ",",
      "1", ",", "1", ",", "0", ",", "1", ",", "2", ",", "3", ",", "2", ",",
      "3", ",", "0", ",", "2", ",", "1", ",", "0", ",", "2", ",", "5", ",",
      "3", ",", "2", ",", "5", ",", "2", ",", "2", ",", "4", ",", "1", ",",
      "1", ",", "5", ",", "0", ",", "2", ",", "4", ",", "3", ",", "0", ",",
      "4", ",", "0", ",", "0", ",", "1", ",", "1", ",", "2", ",", "1", ",",
      "3", ",", "2", ",", "1", ",", "0", ",", "2", ",", "2", ",", "0">>

\* main.rs:231: 5 states, 4 symbols, 62 values
EncFiveFour ==
    <<"5", ",", "4", ",", "4", ",", "2", ",", "1", ",", "1", ",", "3", ",",
      "2", ",", "4", ",", "3", ",", "1", ",", "2", ",", "2", ",", "3", ",",
      "1", ",", "2", ",", "1", ",", "3", ",", "2", ",", "0", ",", "2", ",",
      "2", ",", "3", ",", "2", ",", "3", ",", "0", ",", "2", ",", "3", ",",
      "2", ",", "4", ",", "2", ",", "2", ",", "0", ",", "2", ",", "0", ",",
      "1", ",", "1", ",", "0", ",", "2", ",", "3", ",", "0", ",", "1", ",",
      "2", ",", "1", ",", "2", ",", "3", ",", "3", ",", "3", ",", "2", ",",
      "0", ",", "1", ",", "1", ",", "3", ",", "2", ",", "2", ",", "0", ",",
      "2", ",", "2", ",", "3", ",", "3", ",", "2", ",", "0">>

\* 2 states, 2 symbols, 4 entries, then a token that is never read
EncLazy ==
    <<"2", ",", "2", ",", "0", ",", "1", ",", "0", ",", "1", ",", "0", ",",
      "1", ",", "0", ",", "1", ",", "2", ",", "1", ",", "1", ",", "3", ",",
      "x">>

\* an action code outside 0..3
EncBadAction ==
    <<"1", ",", "2", ",", "0", ",", "1", ",", "4", ",", "0", ",", "0", ",",
      "0">>

\* a value that does not fit a u8
EncTooBig ==
    <<"1", ",", "2", ",", "0", ",", "1", ",", "0", ",", "0", ",", "3", "0",
      "0", ",", "1">>

Encodings ==
    {EncScenario, EncThreeSix, EncFiveFour, EncLazy, EncBadAction, EncTooBig}

---------------------------------------------------------------------------
(* End-of-frame maintenance (lines 296-319). *)

\* retain keeping every machine, with or without energy
retainAll(ms) == SelectSeq(ms, LAMBDA m : TRUE)

\* machines.retain(|machine| machine.energy > 0)
retain(ms) == SelectSeq(ms, LAMBDA m : U32Gt(m.energy, 0))

\* the number of machines lines 303-307 construct
Missing(ms) == IF Len(ms) < NUM_MACHINES THEN NUM_MACHINES - Len(ms) ELSE 0

\* decay adding 1 to every cell above 0 instead of taking 1 away
decayUpwards(mp) == [i \in DOMAIN mp |-> IF mp[i] > 0 THEN mp[i] + 1 ELSE mp[i]]

\* decay without the test of line 315: a cell at 0 wraps to 255
decayWrapping(mp) == [i \in DOMAIN mp |-> (mp[i] - 1) % U8]

\* lines 313-319: every cell above 0 loses 1
decay(mp) == [i \in DOMAIN mp |-> IF mp[i] > 0 THEN mp[i] - 1 ELSE mp[i]]

---------------------------------------------------------------------------
(* Spec: main(). *)

Init ==
    /\ overflow_checks \in BOOLEAN
    /\ map = ZeroMap
    /\ machines = <<>>
    /\ newmachines = <<>>
    /\ playing = TRUE
    /\ space_pressed = FALSE
    /\ ITER = 0
    /\ pc = "idle"
    /\ mi = 0
    /\ it = 0
    /\ fresh_count = 0
    /\ reseeded = FALSE
    /\ api_iters = 0
    /\ last = [op |-> "init"]

\* One call of the callback up to the frame's loop (lines 247-293): the keys
\* and buttons that are down, and whether time has passed since the last
\* frame.  Escape ends the run.  A frame starts only below the model's cap.
Handler(escape, mouse_left, mouse_right, space, elapsed) ==
    LET playing1 == IF mouse_left \/ mouse_right THEN TRUE ELSE playing
        machines1 == IF mouse_right THEN <<>> ELSE machines
        playing2 == IF space /\ ~space_pressed THEN ~playing1 ELSE playing1
        run == elapsed /\ playing2
    IN  /\ pc = "idle"
        /\ IF escape
           THEN /\ pc' = "exited"
                /\ last' = [op |-> "escape"]
                /\ UNCHANGED <<map, machines, newmachines, playing,
                               space_pressed, mi, it, reseeded>>
           ELSE /\ run => ITER < MaxFrames
                /\ playing' = playing2
                /\ space_pressed' = space
                /\ machines' = machines1
                /\ reseeded' = (mouse_right \/ reseeded)
                /\ last' = [op |-> "input", reseed |-> mouse_right, run |-> run]
                /\ IF run
                   THEN /\ newmachines' = <<>>
                        /\ mi' = 1
                        /\ it' = 0
                        /\ pc' = IF Len(machines1) > 0 THEN "update" ELSE "endframe"
                   ELSE /\ pc' = "idle"
                        /\ UNCHANGED <<newmachines, mi, it>>
                /\ map' = map
        /\ UNCHANGED <<overflow_checks, ITER, fresh_count, api_iters>>

\* UpdateIter pushing a clone straight onto the live set instead of the
\* frame's queue
UpdateIterMergesAtOnce ==
    LET r == update_iter(machines[mi], map, newmachines, overflow_checks)
        lastIter == it + 1 >= STEPS_PER_FRAME
    IN  /\ pc = "update"
        /\ machines' = [machines EXCEPT ![mi] = r.self]
                           \o SubSeq(r.machines, Len(newmachines) + 1, Len(r.machines))
        /\ map' = r.map
        /\ newmachines' = newmachines
        /\ reseeded' = FALSE
        /\ last' = [op |-> "step", mi |-> mi, it |-> it, pre |-> machines[mi],
                    cell |-> r.cell, symbol |-> r.symbol, index |-> r.index,
                    panicked |-> r.panicked, why |-> r.why,
                    queued |-> Len(newmachines),
                    call_energy |-> IF it = 0 THEN machines[mi].energy
                                    ELSE last.call_energy,
                    call_gain |-> (IF it = 0 THEN 0 ELSE last.call_gain)
                                  + r.symbol \div 10,
                    start |-> IF last.op = "step" THEN last.start ELSE machines,
                    zeroed |-> (IF last.op = "step" THEN last.zeroed ELSE {})
                               \cup (IF U32Gt(machines[mi].energy, 1)
                                     THEN {} ELSE {mi})]
        /\ IF r.panicked
           THEN pc' = "panicked" /\ UNCHANGED <<mi, it>>
           ELSE IF ~lastIter
           THEN pc' = "update" /\ it' = it + 1 /\ mi' = mi
           ELSE /\ it' = 0
                /\ mi' = mi + 1
                /\ pc' = IF mi + 1 <= Len(machines) THEN "update" ELSE "endframe"
        /\ UNCHANGED <<overflow_checks, playing, space_pressed, ITER,
                       fresh_count, api_iters>>

\* One iteration of the loop of update, for machine mi of the live set
\* (lines 293-295 and 161-221).  last keeps what the iteration read, the
\* machine before it, and for the running call of update the energy it
\* started with and the energy gained from symbols so far; for the running
\* frame, the live set the frame started with and the machines whose
\* decrement (line 163) has left no energy (it found 1, or 0).
UpdateIter ==
    LET r == update_iter(machines[mi], map, newmachines, overflow_checks)
        lastIter == it + 1 >= STEPS_PER_FRAME
    IN  /\ pc = "update"
        /\ machines' = [machines EXCEPT ![mi] = r.self]
        /\ map' = r.map
        /\ newmachines' = r.machines
        /\ reseeded' = FALSE
        /\ last' = [op |-> "step", mi |-> mi, it |-> it, pre |-> machines[mi],
                    cell |-> r.cell, symbol |-> r.symbol, index |-> r.index,
                    panicked |-> r.panicked, why |-> r.why,
                    queued |-> Len(newmachines),
                    call_energy |-> IF it = 0 THEN machines[mi].energy
                                    ELSE last.call_energy,
                    call_gain |-> (IF it = 0 THEN 0 ELSE last.call_gain)
                                  + r.symbol \div 10,
                    start |-> IF last.op = "step" THEN last.start ELSE machines,
                    zeroed |-> (IF last.op = "step" THEN last.zeroed ELSE {})
                               \cup (IF U32Gt(machines[mi].energy, 1)
                                     THEN {} ELSE {mi})]
        /\ IF r.panicked
           THEN pc' = "panicked" /\ UNCHANGED <<mi, it>>
           ELSE IF ~lastIter
           THEN pc' = "update" /\ it' = it + 1 /\ mi' = mi
           ELSE /\ it' = 0
                /\ mi' = mi + 1
                /\ pc' = IF mi + 1 <= Len(machines) THEN "update" ELSE "endframe"
        /\ UNCHANGED <<overflow_checks, playing, space_pressed, ITER,
                       fresh_count, api_iters>>

\* The rest of the frame (lines 296-321): merge the queue, retain the
\* machines with energy, construct the missing ones, decay the map.  The
\* model stops where the run would construct more than MaxFresh machines.
EndFrame ==
    LET kept == retain(machines \o newmachines)
        need == Missing(kept)
    IN  /\ pc = "endframe"
        /\ fresh_count + need <= MaxFresh
        /\ \E fresh \in [1..need -> new(COLONY_STATES, COLONY_SYMBOLS, overflow_checks)] :
              machines' = kept \o fresh
        /\ fresh_count' = fresh_count + need
        /\ newmachines' = <<>>
        /\ map' = decay(map)
        /\ ITER' = ITER + 1
        /\ pc' = "idle"
        /\ last' = [op |-> "endframe", fresh |-> need,
                    before |-> machines \o newmachines,
                    stepped |-> Len(machines), premap |-> map,
                    zeroed |-> IF last.op = "step" THEN last.zeroed ELSE {}]
        /\ UNCHANGED <<overflow_checks, playing, space_pressed, mi, it,
                       reseeded, api_iters>>

Next ==
    \/ \E escape, mouse_left, mouse_right, space, elapsed \in BOOLEAN :
          Handler(escape, mouse_left, mouse_right, space, elapsed)
    \/ UpdateIter
    \/ EndFrame

Spec == Init /\ [][Next]_vars

---------------------------------------------------------------------------
(* SpecApi: the methods of TuringMachine applied to one machine and one    *)
(* map, the way the single-machine main of lines 231-232, 256 and 271      *)
(* uses them: the machine is constructed once, by new or by from_string,   *)
(* and is then reset and updated.  machines holds the machine, newmachines *)
(* is the vector passed to update, and a panic ends the run.               *)

\* the 16-bit arguments new() is tried with
NewStatesTried == {0, 1, 50, 2^8, 2^16 - 1}
NewSymbolsTried == {0, 1, 2, 64, 2^8, 2^12 + 1, 2^16 - 1}

InitApi ==
    /\ overflow_checks \in BOOLEAN
    /\ map = ZeroMap
    /\ machines = <<>>
    /\ newmachines = <<>>
    /\ playing = TRUE
    /\ space_pressed = FALSE
    /\ ITER = 0
    /\ pc = "construct"
    /\ mi = 0
    /\ it = 0
    /\ fresh_count = 0
    /\ reseeded = FALSE
    /\ api_iters = 0
    /\ last = [op |-> "init"]

ApiNew(num_states, num_symbols) ==
    LET ms == new(num_states, num_symbols, overflow_checks)
    IN  /\ pc = "construct"
        /\ last' = [op |-> "new", num_states |-> num_states,
                    num_symbols |-> num_symbols, panicked |-> (ms = {})]
        /\ IF ms = {}
           THEN pc' = "panicked" /\ machines' = machines
           ELSE pc' = "ready" /\ \E m \in ms : machines' = <<m>>
        /\ UNCHANGED <<overflow_checks, map, newmachines, playing, space_pressed,
                       ITER, mi, it, fresh_count, reseeded, api_iters>>

ApiFromString(transition_hash) ==
    LET r == from_string(transition_hash)
    IN  /\ pc = "construct"
        /\ last' = [op |-> "from_string", transition_hash |-> transition_hash,
                    panicked |-> r.panicked, num_states |-> r.num_states,
                    num_symbols |-> r.num_symbols, table |-> r.table]
        /\ IF r.panicked
           THEN pc' = "panicked" /\ machines' = machines
           ELSE pc' = "ready" /\ machines' = <<r.machine>>
        /\ UNCHANGED <<overflow_checks, map, newmachines, playing, space_pressed,
                       ITER, mi, it, fresh_count, reseeded, api_iters>>

ApiReset ==
    /\ pc = "ready"
    /\ machines' = <<reset(machines[1])>>
    /\ last' = [op |-> "reset", pre |-> machines[1], premap |-> map,
                again |-> (last.op = "reset")]
    /\ UNCHANGED <<overflow_checks, map, newmachines, playing, space_pressed,
                   ITER, pc, mi, it, fresh_count, reseeded, api_iters>>

\* update(map, num_iters, machines)
ApiUpdate(num_iters) ==
    LET r == update(machines[1], map, num_iters, newmachines, overflow_checks)
    IN  /\ pc = "ready"
        /\ api_iters + num_iters <= MaxApiIters
        /\ api_iters' = api_iters + num_iters
        /\ machines' = <<r.self>>
        /\ map' = r.map
        /\ newmachines' = r.machines
        /\ pc' = IF r.panicked THEN "panicked" ELSE "ready"
        /\ last' = [op |-> "update", num_iters |-> num_iters,
                    pre |-> machines[1], premap |-> map]
        /\ UNCHANGED <<overflow_checks, playing, space_pressed, ITER, mi, it,
                       fresh_count, reseeded>>

NextApi ==
    \/ \E num_states \in NewStatesTried, num_symbols \in NewSymbolsTried :
          ApiNew(num_states, num_symbols)
    \/ \E transition_hash \in Encodings : ApiFromString(transition_hash)
    \/ ApiReset
    \/ \E num_iters \in 0..MaxChunk : ApiUpdate(num_iters)

SpecApi == InitApi /\ [][NextApi]_vars

---------------------------------------------------------------------------
(* The statements checked.  After an iteration of update, last.pre is the  *)
(* machine before it and machines[last.mi] the machine after it.           *)

\* an iteration of update has just run to its end
Stepped == last.op = "step" /\ ~last.panicked

\* the transition that iteration applied
Applied == TableGet(last.pre.table, last.index)

\* the machine after that iteration
Post == machines[last.mi]

OnGrid(m) ==
    /\ 0 <= m.xpos /\ m.xpos < WIDTH
    /\ 0 <= m.ypos /\ m.ypos < HEIGHT

\* C1: every machine of the live set and every queued clone is on the grid
\* (0 <= xpos < WIDTH, 0 <= ypos < HEIGHT) in every reachable state, and a
\* move off an edge ends on the opposite edge, not on the edge it left.
C1_PositionInvariant ==
    /\ \A i \in 1..Len(machines) : OnGrid(machines[i])
    /\ \A i \in 1..Len(newmachines) : OnGrid(newmachines[i])
    /\ Stepped =>
          /\ (Applied.action = "Left" /\ last.pre.xpos = WIDTH - 1) => Post.xpos = 0
          /\ (Applied.action = "Right" /\ last.pre.xpos = 0) => Post.xpos = WIDTH - 1
          /\ (Applied.action = "Up" /\ last.pre.ypos = 0) => Post.ypos = HEIGHT - 1
          /\ (Applied.action = "Down" /\ last.pre.ypos = HEIGHT - 1) => Post.ypos = 0

\* a Left move off the last column has just been made
C1_Witness ==
    /\ Stepped
    /\ Applied.action = "Left"
    /\ last.pre.xpos = WIDTH - 1
    /\ Post.xpos = 0

\* C2: a Left move yields ((x+1) mod WIDTH, y), Right ((x-1) mod WIDTH, y),
\* Up (x, (y-1) mod HEIGHT), Down (x, (y+1) mod HEIGHT), and Wait leaves
\* (x, y) unchanged.
C2_ToroidalMove ==
    Stepped =>
        LET x == last.pre.xpos
            y == last.pre.ypos
            a == Applied.action
        IN  /\ a = "Left"  => (Post.xpos = (x + 1) % WIDTH /\ Post.ypos = y)
            /\ a = "Right" => (Post.xpos = (x - 1) % WIDTH /\ Post.ypos = y)
            /\ a = "Up"    => (Post.xpos = x /\ Post.ypos = (y - 1) % HEIGHT)
            /\ a = "Down"  => (Post.xpos = x /\ Post.ypos = (y + 1) % HEIGHT)
            /\ a = "Wait"  => (Post.xpos = x /\ Post.ypos = y)

\* an Up move off the first row has just been made
C2_Witness ==
    /\ Stepped
    /\ Applied.action = "Up"
    /\ last.pre.ypos = 0
    /\ Post.ypos = HEIGHT - 1

\* the position p moved by action a, on the torus
Moved(x, y, a) ==
    CASE a = "Left"  -> <<(x + 1) % WIDTH, y>>
      [] a = "Right" -> <<(x - 1) % WIDTH, y>>
      [] a = "Up"    -> <<x, (y - 1) % HEIGHT>>
      [] a = "Down"  -> <<x, (y + 1) % HEIGHT>>
      [] OTHER       -> <<x, y>>

\* the entry the table holds for state s and symbol c: the one construction
\* stored at index num_states * c + s
EntryFor(m, s, c) == TableGet(m.table, m.num_states * c + s)

\* C3: after one step from position p in state s over symbol c, with t the
\* table entry for (s, c): the cell at p holds t.symbol, the state is
\* t.state, the position is p moved by t.action, and the step counter has
\* grown by exactly 1.
C3_StepPostcondition ==
    Stepped =>
        LET t == EntryFor(last.pre, last.pre.state, last.symbol)
        IN  /\ map[last.cell] = t.symbol
            /\ Post.state = t.state
            /\ <<Post.xpos, Post.ypos>> = Moved(last.pre.xpos, last.pre.ypos, t.action)
            /\ Post.itr_count = U32Add(last.pre.itr_count, 1).val
            /\ ~U32Add(last.pre.itr_count, 1).overflow

\* C4: at every step with state s < num_states over symbol c < num_symbols,
\* the transition applied is the table entry at index num_states * c + s.
C4_LookupIndex ==
    (/\ last.op = "step"
     /\ last.why \in {"", "index arithmetic", "index out of bounds"}
     /\ last.pre.state < last.pre.num_states
     /\ last.symbol < last.pre.num_symbols)
    => (~last.panicked /\ last.index = last.pre.num_states * last.symbol + last.pre.state)

\* C5: a machine stepped k times in a call of update over cells that give no
\* energy (symbol below 10) has lost exactly k units of energy; and the
\* end-of-frame pass removes exactly the machines whose energy is 0 (<= 0),
\* none with positive energy.
C5_EnergyAccounting ==
    /\ (/\ last.op = "step"
        /\ last.call_gain = 0
        /\ ~U32Gt(last.call_energy, REPLICATIONCOST))
       => (/\ ~last.panicked
           /\ last.call_energy.lo - (last.it + 1) >= 0
           /\ Post.energy = U32(last.call_energy.lo - (last.it + 1)))
    /\ last.op = "endframe"
       => LET alive == {i \in 1..Len(last.before) : last.before[i].energy # U32(0)}
              kept == Len(machines) - last.fresh
          IN  /\ kept = Cardinality(alive)
              /\ \A k \in 1..kept : \E i \in alive : machines[k] = last.before[i]

\* update(a) followed by update(b) on what it left; nothing runs after an abort
ChunkedUpdate(self, mp, a, b, queue, oc) ==
    LET first == update(self, mp, a, queue, oc)
    IN  IF first.panicked THEN first
        ELSE update(first.self, first.map, b, first.machines, oc)

\* C6: from every state in which the colony calls update, and for all a and
\* b up to MaxChunk, update with a iterations and then with b iterations
\* leaves the same map, machine (position, state, energy, step count) and
\* queue of clones as update with a + b iterations.
C6_Chunking ==
    pc = "update" =>
        \A a, b \in 0..MaxChunk :
            ChunkedUpdate(machines[mi], map, a, b, newmachines, overflow_checks)
              = update(machines[mi], map, a + b, newmachines, overflow_checks)

\* a state from which one iteration and then one more change the machine and
\* queue a clone
C6_Witness ==
    /\ pc = "update"
    /\ LET r == ChunkedUpdate(machines[mi], map, 1, 1, newmachines, overflow_checks)
       IN  /\ ~r.panicked
           /\ r.self # machines[mi]
           /\ Len(r.machines) > Len(newmachines)

\* C7 as stated: decoding the scenario's encoding succeeds with num_states 3,
\* num_symbols 4 and 12 entries, the first being (state 2, symbol 2, Left).
C7_DecodeScenario ==
    (last.op = "from_string" /\ last.transition_hash = EncScenario)
    => (/\ ~last.panicked
        /\ last.num_states = 3
        /\ last.num_symbols = 4
        /\ Len(last.table) = 12
        /\ last.table[1] = Transition(2, 2, "Left"))

\* C7 as amended: decoding the scenario's encoding fails.  It reads
\* num_states 3 and num_symbols 4, so it needs 2 + 3*12 = 38 values, and it
\* holds 27: from_string reads 8 entries and aborts, and no machine is made.
\* The first entry it reads is (state 2, symbol 2, Down).
C7_DecodeScenarioFails ==
    (last.op = "from_string" /\ last.transition_hash = EncScenario)
    => (/\ last.panicked
        /\ pc = "panicked"
        /\ machines = <<>>
        /\ last.num_states = 3
        /\ last.num_symbols = 4
        /\ Len(Split(EncScenario)) = 27
        /\ Len(last.table) = 8
        /\ last.table[1] = Transition(2, 2, "Down"))

\* from_string has just been applied to the scenario's encoding
C7_Witness ==
    /\ last.op = "from_string"
    /\ last.transition_hash = EncScenario
    /\ last.panicked

\* a * b > n, without leaving TLC's integers
ProductExceeds(a, b, n) == b > 0 /\ a > n \div b

\* C8: new(num_states, num_symbols) rejects construction exactly when
\* num_states < 1, or num_symbols < 2, or num_states * num_symbols (the
\* mathematical product) exceeds 4096.
C8_ConstructionValidation ==
    last.op = "new" =>
        (last.panicked <=>
            \/ last.num_states < 1
            \/ last.num_symbols < 2
            \/ ProductExceeds(last.num_states, last.num_symbols, CAPACITY))

\* C9: after a right click has emptied the live set, the map is all zero
\* when the first machine steps again.
C9_ReseedReplacesGrid ==
    (pc = "update" /\ reseeded) => map = ZeroMap

\* C10: a second reset() in a row leaves the machine and the map as the first
\* left them, and the map is all zero.
C10_ResetIdempotent ==
    (last.op = "reset" /\ last.again)
    => (/\ machines[1] = last.pre
        /\ map = last.premap
        /\ map = ZeroMap)

\* C11: whenever the decrement of line 163 runs, the machine's energy is at
\* least 1, so the u32 counter neither wraps nor aborts on overflow.
C11_NoUnderflow ==
    last.op = "step" =>
        (U32Gt(last.pre.energy, 0) /\ last.why # "energy -= 1")

\* C12: a machine whose decrement left no energy at some iteration of a
\* frame still completes that iteration, and is not in the live set after
\* that frame's retain, whatever energy it gained afterwards.
C12_DeathIsFinal ==
    /\ (last.op = "step" /\ ~U32Gt(last.pre.energy, 1)) => ~last.panicked
    /\ last.op = "endframe" =>
          \A i \in last.zeroed :
              \A k \in 1..(Len(machines) - last.fresh) :
                  machines[k] # last.before[i]

\* the cell under machine m
CellOf(m) == WIDTH * m.ypos + m.xpos

\* C13: a clone queued by Replicate during a frame takes no step in that
\* frame: while the frame's machines are stepped the live set keeps its
\* length, the clones already queued stay exactly as they were created, and
\* only the cell under the stepped machine of the live set is written; the
\* clones join the live set, unchanged, when the frame ends, and are stepped
\* from the following frame on.
C13_NoActInBirthFrame ==
    [][/\ pc = "update" =>
            /\ mi <= Len(machines)
            /\ Len(machines') = Len(machines)
            /\ Len(newmachines') >= Len(newmachines)
            /\ SubSeq(newmachines', 1, Len(newmachines)) = newmachines
            /\ \A c \in DOMAIN map : map'[c] # map[c] => c = CellOf(machines[mi])
       /\ pc = "endframe" =>
            LET kept == Len(retain(machines))
            IN  SubSeq(machines', kept + 1, kept + Len(newmachines)) = newmachines
      ]_vars

\* a clone merged at the end of its birth frame has just taken its first
\* step, in the following frame, with the step count it was created with
C13_Witness ==
    /\ Stepped
    /\ last.mi = 2
    /\ last.it = 0
    /\ Len(last.start) = 2
    /\ last.pre = last.start[2]
    /\ last.pre.energy = U32(STARTENERGY)
    /\ last.pre.itr_count = last.start[1].itr_count

\* the energy of the machine after the decrement and the gain of the last
\* iteration, before the match on the action
PostStepEnergy == U32Add(U32Sub(last.pre.energy, 1).val, last.symbol \div 10).val

\* C14: a step whose action is Replicate, with post-step energy above 500,
\* queues exactly one clone, which has the parent's table and state, energy
\* 10 and the parent's position moved one cell along each axis on the torus,
\* and takes exactly 500 from the parent's energy, which stays positive;
\* with post-step energy at most 500 it queues nothing and leaves the
\* parent's energy and position alone.
C14_ReplicationEffect ==
    (Stepped /\ Applied.action = "Replicate") =>
        IF U32Gt(PostStepEnergy, REPLICATIONCOST)
        THEN /\ Len(newmachines) = last.queued + 1
             /\ LET clone == newmachines[Len(newmachines)]
                IN  /\ clone.table = last.pre.table
                    /\ clone.state = Post.state
                    /\ clone.energy = U32(10)
                    /\ clone.xpos = (Post.xpos + 1) % WIDTH
                    /\ clone.ypos = (Post.ypos + 1) % HEIGHT
             /\ U32Add(Post.energy, 500).val = PostStepEnergy
             /\ ~U32Add(Post.energy, 500).overflow
             /\ U32Gt(Post.energy, 0)
             /\ <<Post.xpos, Post.ypos>> = <<last.pre.xpos, last.pre.ypos>>
        ELSE /\ Len(newmachines) = last.queued
             /\ Post.energy = PostStepEnergy
             /\ <<Post.xpos, Post.ypos>> = <<last.pre.xpos, last.pre.ypos>>

\* a Replicate step has just queued a clone
C14_Witness ==
    /\ Stepped
    /\ Applied.action = "Replicate"
    /\ U32Gt(PostStepEnergy, REPLICATIONCOST)
    /\ Len(newmachines) = last.queued + 1

\* the iterations machine j of the live set has run in the frame being played
StepsInFrame(j) == machines[j].itr_count.lo - last.start[j].itr_count.lo

\* C15: within a frame the sub-steps are the outer loop: when a machine has
\* run its sub-step number i+1, every machine live at the frame's start has
\* run its sub-step number i.
C15_SubstepOrder ==
    last.op = "step" =>
        \A j \in 1..Len(last.start) : StepsInFrame(j) >= last.it

\* C16: after the end of a played frame the live set holds at least
\* NUM_MACHINES machines, each with energy above 0; every clone queued in the
\* frame with energy above 0 is in it; and machines are constructed only
\* when fewer than NUM_MACHINES are left after the retain, and then exactly
\* as many as are missing.
C16_PopulationMaintenance ==
    last.op = "endframe" =>
        LET pruned == Len(machines) - last.fresh
            alive  == {i \in 1..Len(last.before) : last.before[i].energy # U32(0)}
            clones == {i \in alive : i > last.stepped}
        IN  /\ Len(machines) >= NUM_MACHINES
            /\ \A k \in 1..Len(machines) : machines[k].energy # U32(0)
            /\ \A i \in clones : \E k \in 1..pruned : machines[k] = last.before[i]
            /\ pruned = Cardinality(alive)
            /\ last.fresh > 0 => pruned < NUM_MACHINES
            /\ last.fresh = IF pruned < NUM_MACHINES THEN NUM_MACHINES - pruned ELSE 0

\* a frame has just ended in which a machine without energy was removed and
\* one was constructed in its place
C16_Witness ==
    /\ last.op = "endframe"
    /\ \E i \in 1..Len(last.before) : last.before[i].energy = U32(0)
    /\ last.fresh = 1
    /\ Len(machines) = NUM_MACHINES

\* C17: every cell of the map holds a value below num_symbols (64) and every
\* machine's state is below num_states (50), so num_states * symbol + state
\* is below the length of the table (3200) for every cell a machine can
\* stand on, and no iteration reads outside the table.
C17_LookupInRange ==
    /\ \A c \in DOMAIN map : map[c] < COLONY_SYMBOLS
    /\ \A m \in {machines[i] : i \in 1..Len(machines)}
              \cup {newmachines[i] : i \in 1..Len(newmachines)} :
          /\ m.state < m.num_states
          /\ m.num_states = COLONY_STATES
          /\ TableLen(m.table) = COLONY_STATES * COLONY_SYMBOLS
          /\ \A c \in DOMAIN map :
                m.num_states * map[c] + m.state < TableLen(m.table)
    /\ last.op = "step" =>
          /\ last.why # "index out of bounds"
          /\ last.index < TableLen(last.pre.table)

\* a machine has just stepped over a cell holding the largest symbol, after
\* the map has decayed at least once
C17_Witness ==
    /\ Stepped
    /\ ITER >= 2
    /\ last.symbol = COLONY_SYMBOLS - 1
    /\ last.index < TableLen(last.pre.table)

\* C18: the map decays exactly once per played frame, at the frame's end
\* after stepping and population maintenance, however many steps the frame
\* had: every cell above 0 loses exactly 1, every cell at 0 stays 0 (none
\* wraps to 255); nothing else ends a frame or lowers the map between
\* frames.
C18_GridDecay ==
    [][/\ pc = "endframe" =>
            /\ \A c \in DOMAIN map :
                  map'[c] = IF map[c] > 0 THEN map[c] - 1 ELSE 0
            /\ ITER' = ITER + 1
            /\ Len(machines') >= NUM_MACHINES
       /\ pc # "endframe" => ITER' = ITER
       /\ pc \notin {"endframe", "update"} => map' = map
       /\ pc = "update" =>
            \A c \in DOMAIN map : map'[c] # map[c] => c = CellOf(machines[mi])
      ]_vars

\* a frame in which no machine stepped has just ended, and the map decayed:
\* a cell above 0 lost 1 and a cell at 0 stayed 0
C18_Witness ==
    /\ last.op = "endframe"
    /\ last.stepped = 0
    /\ \E c \in DOMAIN map : last.premap[c] > 0 /\ map[c] = last.premap[c] - 1
    /\ \E c \in DOMAIN map : last.premap[c] = 0 /\ map[c] = 0

\* the energy of the machine after the last iteration with the cost of a
\* replication, if one was paid, put back
EnergyBeforeCost ==
    IF Applied.action = "Replicate" /\ Len(newmachines) > last.queued
    THEN U32Add(Post.energy, REPLICATIONCOST).val
    ELSE Post.energy

\* C19: after every step the machine's energy, before any replication cost,
\* is its energy before the step minus 1 plus floor(c / 10), where c is the
\* symbol that was under the head before the step wrote the cell.
C19_EnergyGain ==
    Stepped =>
        LET gain == last.symbol \div 10
        IN  /\ last.pre.energy.hi = 0 => last.pre.energy.lo - 1 + gain >= 0
            /\ ~U32Add(U32Sub(last.pre.energy, 1).val, gain).overflow
            /\ EnergyBeforeCost = U32Add(U32Sub(last.pre.energy, 1).val, gain).val

\* C20: one step of a machine changes at most the cell of the map under
\* that machine before the step; every other cell and every other machine
\* of the live set (position, state, energy, step count, table) is left as
\* it was, and the stepping machine's table is left as it was.
C20_StepFrame ==
    [][pc = "update" =>
          /\ \A c \in DOMAIN map : c # CellOf(machines[mi]) => map'[c] = map[c]
          /\ Len(machines') = Len(machines)
          /\ \A j \in 1..Len(machines) : j # mi => machines'[j] = machines[j]
          /\ machines'[mi].table = machines[mi].table
          /\ machines'[mi].num_states = machines[mi].num_states
          /\ machines'[mi].num_symbols = machines[mi].num_symbols
      ]_vars

\* with two machines in the live set, a step has just changed the cell its
\* machine stood on
C20_Witness ==
    /\ Stepped
    /\ Len(machines) >= 2
    /\ map[last.cell] # last.symbol

============================================================================
